---- MODULE Spec2Model ----
(***************************************************************************)
(* Model of backend/server.py: an in-memory e-commerce backend with a      *)
(* product catalog, user registration/login with signed tokens, and a      *)
(* per-user cart.  Each HTTP handler is one atomic action: the handlers    *)
(* are `async def` bodies without any await, so the event loop of the one  *)
(* uvicorn process runs each of them to completion.  What can interleave   *)
(* with other requests is the rest of a request: its arrival, the `def`    *)
(* dependency get_current_user (run in the thread pool, before the body)   *)
(* and the sending of the response.                                        *)
(*                                                                         *)
(* Abstractions: uuid4 identifiers are fresh small integers; prices are    *)
(* integer cents; strings that are compared case-sensitively or lowered    *)
(* are sequences of character codes; the bcrypt hash and the HS256         *)
(* signature are ideal (injective) functions of their inputs.  The         *)
(* created_at / updated_at timestamps and the products' image URLs are     *)
(* written but never read by any handler and are left out of the records.  *)
(*                                                                         *)
(* Four specifications drive the handlers: Spec, the credential and cart   *)
(* endpoints; PublicSpec, the endpoints that take no token (credentials    *)
(* and catalog reads); ShopSpec, every endpoint, with adds that order more *)
(* than a product's stock; ConcSpec, add requests in flight together, each *)
(* taking its steps separately.  In the first three a request is served    *)
(* in one step and no request is in flight between steps.                  *)
(***************************************************************************)
EXTENDS Integers, Sequences, FiniteSets, TLC

VARIABLES products_db, users_db, carts_db, route, resp, credentials, in_flight

vars == <<products_db, users_db, carts_db, route, resp, credentials, in_flight>>

(***************************************************************************)
(* Bounds of the model                                                     *)
(***************************************************************************)
\* add is followed up to this stored quantity
MaxQty == 2

\* the quantities requests carry (add's default 1 included)
Qtys == {-1, 0, 1}
\* the quantities the add requests in flight together carry
FlightQtys == {-1, 1}
\* the category and search parameters of the catalog queries; "" is a
\* parameter that is not given
Categories == {"", "electronics", "HOME", "fashion", "Toys"}
Searches == {"", "SNEAKERS", "premium", "home", "set", "Living", "zzz"}
\* "A" and "a": two e-mails that differ in case only
Emails == {<<65>>, <<97>>}
Passwords == {"pw1", "pw2"}
\* the registrations clients attempt (RegisterRequest bodies), any number of times
RegisterRequests ==
    {[email |-> <<65>>, password |-> "pw1", name |-> "Ann"],
     [email |-> <<97>>, password |-> "pw2", name |-> "Bob"]}
\* the salts bcrypt draws
Salts == {"salt"}
\* the clients that send add requests at the same time, each waiting for the
\* response of its request before it sends the next
Clients == {"c1", "c2"}

(***************************************************************************)
(* Generic sequence helpers (Python next(), list.remove)                   *)
(***************************************************************************)
\* next(..., None) over the positions that match: the first of them, 0 when
\* there is none
FirstIndex(hits) ==
    IF hits = {} THEN 0 ELSE CHOOSE i \in hits : \A j \in hits : i <= j

\* the sequence without its i-th element
RemoveAt(s, i) == SubSeq(s, 1, i - 1) \o SubSeq(s, i + 1, Len(s))

(***************************************************************************)
(* Text.  A str is kept as a string; where the code looks into one (lower, *)
(* in, the order sorted uses) it is read as its sequence of code points.   *)
(***************************************************************************)
\* the code points of the strings of the catalog and of the queries
CodePoints ==
    "Wireless Headphones" :>
        <<87, 105, 114, 101, 108, 101, 115, 115, 32, 72, 101, 97, 100, 112,
          104, 111, 110, 101, 115>> @@
    "Premium wireless headphones with noise cancellation and superior sound quality" :>
        <<80, 114, 101, 109, 105, 117, 109, 32, 119, 105, 114, 101, 108, 101,
          115, 115, 32, 104, 101, 97, 100, 112, 104, 111, 110, 101, 115, 32,
          119, 105, 116, 104, 32, 110, 111, 105, 115, 101, 32, 99, 97, 110,
          99, 101, 108, 108, 97, 116, 105, 111, 110, 32, 97, 110, 100, 32,
          115, 117, 112, 101, 114, 105, 111, 114, 32, 115, 111, 117, 110, 100,
          32, 113, 117, 97, 108, 105, 116, 121>> @@
    "Electronics" :>
        <<69, 108, 101, 99, 116, 114, 111, 110, 105, 99, 115>> @@
    "Athletic Sneakers" :>
        <<65, 116, 104, 108, 101, 116, 105, 99, 32, 83, 110, 101, 97, 107,
          101, 114, 115>> @@
    "Comfortable and stylish athletic shoes perfect for running and daily wear" :>
        <<67, 111, 109, 102, 111, 114, 116, 97, 98, 108, 101, 32, 97, 110,
          100, 32, 115, 116, 121, 108, 105, 115, 104, 32, 97, 116, 104, 108,
          101, 116, 105, 99, 32, 115, 104, 111, 101, 115, 32, 112, 101, 114,
          102, 101, 99, 116, 32, 102, 111, 114, 32, 114, 117, 110, 110, 105,
          110, 103, 32, 97, 110, 100, 32, 100, 97, 105, 108, 121, 32, 119,
          101, 97, 114>> @@
    "Fashion" :>
        <<70, 97, 115, 104, 105, 111, 110>> @@
    "Modern Office Chair" :>
        <<77, 111, 100, 101, 114, 110, 32, 79, 102, 102, 105, 99, 101, 32, 67,
          104, 97, 105, 114>> @@
    "Ergonomic office chair with premium comfort and adjustable features" :>
        <<69, 114, 103, 111, 110, 111, 109, 105, 99, 32, 111, 102, 102, 105,
          99, 101, 32, 99, 104, 97, 105, 114, 32, 119, 105, 116, 104, 32, 112,
          114, 101, 109, 105, 117, 109, 32, 99, 111, 109, 102, 111, 114, 116,
          32, 97, 110, 100, 32, 97, 100, 106, 117, 115, 116, 97, 98, 108, 101,
          32, 102, 101, 97, 116, 117, 114, 101, 115>> @@
    "Furniture" :>
        <<70, 117, 114, 110, 105, 116, 117, 114, 101>> @@
    "Desktop Computer Setup" :>
        <<68, 101, 115, 107, 116, 111, 112, 32, 67, 111, 109, 112, 117, 116,
          101, 114, 32, 83, 101, 116, 117, 112>> @@
    "Complete desktop workstation with high-performance components" :>
        <<67, 111, 109, 112, 108, 101, 116, 101, 32, 100, 101, 115, 107, 116,
          111, 112, 32, 119, 111, 114, 107, 115, 116, 97, 116, 105, 111, 110,
          32, 119, 105, 116, 104, 32, 104, 105, 103, 104, 45, 112, 101, 114,
          102, 111, 114, 109, 97, 110, 99, 101, 32, 99, 111, 109, 112, 111,
          110, 101, 110, 116, 115>> @@
    "Fashion Accessories Set" :>
        <<70, 97, 115, 104, 105, 111, 110, 32, 65, 99, 99, 101, 115, 115, 111,
          114, 105, 101, 115, 32, 83, 101, 116>> @@
    "Curated collection of stylish fashion accessories" :>
        <<67, 117, 114, 97, 116, 101, 100, 32, 99, 111, 108, 108, 101, 99,
          116, 105, 111, 110, 32, 111, 102, 32, 115, 116, 121, 108, 105, 115,
          104, 32, 102, 97, 115, 104, 105, 111, 110, 32, 97, 99, 99, 101, 115,
          115, 111, 114, 105, 101, 115>> @@
    "Home Decor Collection" :>
        <<72, 111, 109, 101, 32, 68, 101, 99, 111, 114, 32, 67, 111, 108, 108,
          101, 99, 116, 105, 111, 110>> @@
    "Beautiful home decor items to enhance your living space" :>
        <<66, 101, 97, 117, 116, 105, 102, 117, 108, 32, 104, 111, 109, 101,
          32, 100, 101, 99, 111, 114, 32, 105, 116, 101, 109, 115, 32, 116,
          111, 32, 101, 110, 104, 97, 110, 99, 101, 32, 121, 111, 117, 114,
          32, 108, 105, 118, 105, 110, 103, 32, 115, 112, 97, 99, 101>> @@
    "Home" :>
        <<72, 111, 109, 101>> @@
    "Arduino Development Kit" :>
        <<65, 114, 100, 117, 105, 110, 111, 32, 68, 101, 118, 101, 108, 111,
          112, 109, 101, 110, 116, 32, 75, 105, 116>> @@
    "Complete Arduino starter kit for electronics projects and learning" :>
        <<67, 111, 109, 112, 108, 101, 116, 101, 32, 65, 114, 100, 117, 105,
          110, 111, 32, 115, 116, 97, 114, 116, 101, 114, 32, 107, 105, 116,
          32, 102, 111, 114, 32, 101, 108, 101, 99, 116, 114, 111, 110, 105,
          99, 115, 32, 112, 114, 111, 106, 101, 99, 116, 115, 32, 97, 110,
          100, 32, 108, 101, 97, 114, 110, 105, 110, 103>> @@
    "Lifestyle Products Bundle" :>
        <<76, 105, 102, 101, 115, 116, 121, 108, 101, 32, 80, 114, 111, 100,
          117, 99, 116, 115, 32, 66, 117, 110, 100, 108, 101>> @@
    "Carefully selected lifestyle products for modern living" :>
        <<67, 97, 114, 101, 102, 117, 108, 108, 121, 32, 115, 101, 108, 101,
          99, 116, 101, 100, 32, 108, 105, 102, 101, 115, 116, 121, 108, 101,
          32, 112, 114, 111, 100, 117, 99, 116, 115, 32, 102, 111, 114, 32,
          109, 111, 100, 101, 114, 110, 32, 108, 105, 118, 105, 110, 103>> @@
    "Lifestyle" :>
        <<76, 105, 102, 101, 115, 116, 121, 108, 101>> @@
    "Beauty Essentials" :>
        <<66, 101, 97, 117, 116, 121, 32, 69, 115, 115, 101, 110, 116, 105,
          97, 108, 115>> @@
    "Premium beauty products for your daily routine" :>
        <<80, 114, 101, 109, 105, 117, 109, 32, 98, 101, 97, 117, 116, 121,
          32, 112, 114, 111, 100, 117, 99, 116, 115, 32, 102, 111, 114, 32,
          121, 111, 117, 114, 32, 100, 97, 105, 108, 121, 32, 114, 111, 117,
          116, 105, 110, 101>> @@
    "Beauty" :>
        <<66, 101, 97, 117, 116, 121>> @@
    "Home Organization Set" :>
        <<72, 111, 109, 101, 32, 79, 114, 103, 97, 110, 105, 122, 97, 116,
          105, 111, 110, 32, 83, 101, 116>> @@
    "Complete home organization solution for better living" :>
        <<67, 111, 109, 112, 108, 101, 116, 101, 32, 104, 111, 109, 101, 32,
          111, 114, 103, 97, 110, 105, 122, 97, 116, 105, 111, 110, 32, 115,
          111, 108, 117, 116, 105, 111, 110, 32, 102, 111, 114, 32, 98, 101,
          116, 116, 101, 114, 32, 108, 105, 118, 105, 110, 103>> @@
    "" :>
        <<>> @@
    "electronics" :>
        <<101, 108, 101, 99, 116, 114, 111, 110, 105, 99, 115>> @@
    "HOME" :>
        <<72, 79, 77, 69>> @@
    "Toys" :>
        <<84, 111, 121, 115>> @@
    "SNEAKERS" :>
        <<83, 78, 69, 65, 75, 69, 82, 83>> @@
    "premium" :>
        <<112, 114, 101, 109, 105, 117, 109>> @@
    "home" :>
        <<104, 111, 109, 101>> @@
    "fashion" :>
        <<102, 97, 115, 104, 105, 111, 110>> @@
    "set" :>
        <<115, 101, 116>> @@
    "Living" :>
        <<76, 105, 118, 105, 110, 103>> @@
    "zzz" :>
        <<122, 122, 122>>

\* str.lower on one character code
LowerChar(c) == IF c \in 65..90 THEN c + 32 ELSE c

\* str.lower
Lower(str) == [i \in 1..Len(str) |-> LowerChar(str[i])]

\* str.lower of every string of the table, as code points
lower == [str \in DOMAIN CodePoints |-> Lower(CodePoints[str])]

\* a in b, for two strs read as code points
IsSubstring(a, b) ==
    \E i \in 0..(Len(b) - Len(a)) : SubSeq(b, i + 1, i + Len(a)) = a

\* a < b, for two strs read as code points
StrLess(a, b) ==
    \E i \in 1..Len(b) :
        /\ \A j \in 1..(i - 1) : j <= Len(a) /\ a[j] = b[j]
        /\ i > Len(a) \/ (i <= Len(a) /\ a[i] < b[i])

(***************************************************************************)
(* Catalog                                                                 *)
(***************************************************************************)
Prod(i, n, d, p, c, s) ==
    [id |-> i, name |-> n, description |-> d, price |-> p, category |-> c, stock |-> s]

sample_products == <<
    Prod(1, "Wireless Headphones",
         "Premium wireless headphones with noise cancellation and superior sound quality",
         19999, "Electronics", 50),
    Prod(2, "Athletic Sneakers",
         "Comfortable and stylish athletic shoes perfect for running and daily wear",
         12999, "Fashion", 30),
    Prod(3, "Modern Office Chair",
         "Ergonomic office chair with premium comfort and adjustable features",
         29999, "Furniture", 25),
    Prod(4, "Desktop Computer Setup",
         "Complete desktop workstation with high-performance components",
         129999, "Electronics", 15),
    Prod(5, "Fashion Accessories Set",
         "Curated collection of stylish fashion accessories",
         7999, "Fashion", 40),
    Prod(6, "Home Decor Collection",
         "Beautiful home decor items to enhance your living space",
         15999, "Home", 35),
    Prod(7, "Arduino Development Kit",
         "Complete Arduino starter kit for electronics projects and learning",
         8999, "Electronics", 60),
    Prod(8, "Lifestyle Products Bundle",
         "Carefully selected lifestyle products for modern living",
         24999, "Lifestyle", 20),
    Prod(9, "Beauty Essentials",
         "Premium beauty products for your daily routine",
         11999, "Beauty", 45),
    Prod(10, "Home Organization Set",
         "Complete home organization solution for better living",
         17999, "Home", 30) >>

\* the quantities a stored line is followed through: the small ones, and one
\* more than the stock of a product
StoredQtys ==
    0..MaxQty \cup {sample_products[i].stock + 1 : i \in 1..Len(sample_products)}

\* an id no product has
UnknownProductId == Len(sample_products) + 1
\* the product ids requests carry: two catalog products and an unknown id
ReqProductIds == {1, 2, UnknownProductId}
\* the ids the requests in flight together carry
FlightProductIds == {1, UnknownProductId}

\* next((p for p in products_db if p["id"] == product_id), None): index or 0
FindProduct(product_id) ==
    FirstIndex({i \in 1..Len(products_db) : products_db[i].id = product_id})

(***************************************************************************)
(* Password hashing and tokens                                             *)
(***************************************************************************)
SECRET_KEY == "your-secret-key-here"
OtherKey == "attacker-key"

\* bcrypt digest of a password under a salt
Bcrypt(password, salt) == <<salt, password>>

\* pwd_context.hash: the salt is stored beside the digest
pwd_hash(password, salt) == [salt |-> salt, digest |-> Bcrypt(password, salt)]

\* verify that hashes under a fresh salt instead of the stored one
pwd_verifyFreshSalt(password, hash) == Bcrypt(password, "fresh") = hash.digest

\* pwd_context.verify: recompute under the stored salt
pwd_verify(password, hash) == Bcrypt(password, hash.salt) = hash.digest

Payload(user_id, email) == [user_id |-> user_id, email |-> email]

\* verify_token's None
None == Payload(0, <<>>)

\* HMAC-SHA256 of the payload under a key
Sign(key, payload) == <<key, payload.user_id, payload.email>>

\* jwt.encode(data, SECRET_KEY, algorithm="HS256"): header, payload, signature
create_token(data) ==
    [parts |-> 3, alg |-> "HS256", payload |-> data, sig |-> Sign(SECRET_KEY, data)]

NoToken == [parts |-> 0, alg |-> "", payload |-> None, sig |-> <<>>]

\* a decode that accepts whatever algorithm the header names
verify_tokenAnyAlg(token) ==
    IF token.parts # 3 THEN None
    ELSE IF token.sig # Sign(SECRET_KEY, token.payload) THEN None
    ELSE token.payload

\* jwt.decode(token, SECRET_KEY, algorithms=["HS256"]); PyJWTError -> None
verify_token(token) ==
    IF token.parts # 3 THEN None
    ELSE IF token.alg \notin {"HS256"} THEN None
    ELSE IF token.sig # Sign(SECRET_KEY, token.payload) THEN None
    ELSE token.payload

\* the tokens a client can present: the token of every registered user (register
\* and login hand it out, and it never expires), the same claims signed with
\* another key or marked with another algorithm, and a malformed string
ForgedToken(data) == [create_token(data) EXCEPT !.sig = Sign(OtherKey, data)]
AlgNoneToken(data) == [create_token(data) EXCEPT !.alg = "none"]
MalformedToken == [NoToken EXCEPT !.parts = 1]

UserPayloads == {Payload(users_db[i].id, users_db[i].email) : i \in 1..Len(users_db)}

\* the claims a forger puts into a token: user 1 with e-mail "a"
ClaimedPayload == Payload(1, <<97>>)

Tokens ==
    {create_token(d) : d \in UserPayloads}
        \cup {ForgedToken(ClaimedPayload), AlgNoneToken(ClaimedPayload), MalformedToken}

(***************************************************************************)
(* Responses                                                               *)
(***************************************************************************)
NoUser == [id |-> 0, email |-> <<>>, name |-> ""]

NoProduct == Prod(0, "", "", 0, "", 0)

\* a response: HTTP status, the "detail" or "message" text, and the body fields
Response(status, msg) ==
    [status |-> status, msg |-> msg, token |-> NoToken, user |-> NoUser,
     items |-> <<>>, total |-> 0, cart_items |-> 0,
     products |-> <<>>, product |-> NoProduct, categories |-> <<>>]

\* HTTPException(status_code, detail)
HTTPException(status_code, detail) == Response(status_code, detail)

Unauthorized == HTTPException(401, "Invalid token")

\* a client without a request in flight
Idle ==
    [token |-> NoToken, product_id |-> 0, quantity |-> 0, pc |-> "idle",
     current_user |-> None, status |-> 0, seen |-> 0, overtaken |-> 0,
     overtook |-> {}]

\* get_current_user raising: the request ends with 401 before the handler runs
Rejected(handler) ==
    /\ route' = handler
    /\ resp' = Unauthorized
    /\ UNCHANGED <<products_db, users_db, carts_db, credentials>>

(***************************************************************************)
(* Catalog reads                                                           *)
(***************************************************************************)
health_check ==
    /\ route' = "health_check"
    /\ resp' = Response(200, "Ecommerce API is running")
    /\ UNCHANGED <<products_db, users_db, carts_db, credentials>>

\* a search that looks at the names only
get_productsNameOnly(category, search) ==
    LET by_category ==
            IF category # ""
            THEN SelectSeq(products_db, LAMBDA p :
                     lower[p.category] = lower[category])
            ELSE products_db
        search_lower == lower[search]
        filtered_products ==
            IF search # ""
            THEN SelectSeq(by_category, LAMBDA p :
                     IsSubstring(search_lower, lower[p.name]))
            ELSE by_category
    IN /\ route' = "get_products"
       /\ resp' = [Response(200, "") EXCEPT !.products = filtered_products]
       /\ UNCHANGED <<products_db, users_db, carts_db, credentials>>

\* the two filters, one after the other, each applied when its parameter is
\* given and not empty
get_products(category, search) ==
    LET by_category ==
            IF category # ""
            THEN SelectSeq(products_db, LAMBDA p :
                     lower[p.category] = lower[category])
            ELSE products_db
        search_lower == lower[search]
        filtered_products ==
            IF search # ""
            THEN SelectSeq(by_category, LAMBDA p :
                     \/ IsSubstring(search_lower, lower[p.name])
                     \/ IsSubstring(search_lower, lower[p.description]))
            ELSE by_category
    IN /\ route' = "get_products"
       /\ resp' = [Response(200, "") EXCEPT !.products = filtered_products]
       /\ UNCHANGED <<products_db, users_db, carts_db, credentials>>

get_product(product_id) ==
    /\ route' = "get_product"
    /\ resp' = IF FindProduct(product_id) = 0
               THEN HTTPException(404, "Product not found")
               ELSE [Response(200, "") EXCEPT !.product = products_db[FindProduct(product_id)]]
    /\ UNCHANGED <<products_db, users_db, carts_db, credentials>>

\* sorted(..., reverse=True)
RECURSIVE sortedReverse(_)
sortedReverse(strs) ==
    IF strs = {} THEN <<>>
    ELSE LET greatest == CHOOSE x \in strs : \A y \in strs \ {x} :
                             StrLess(CodePoints[y], CodePoints[x])
         IN <<greatest>> \o sortedReverse(strs \ {greatest})

\* sorted(list(set of strs)): ascending in the order of str
RECURSIVE sorted(_)
sorted(strs) ==
    IF strs = {} THEN <<>>
    ELSE LET least == CHOOSE x \in strs : \A y \in strs \ {x} :
                          StrLess(CodePoints[x], CodePoints[y])
         IN <<least>> \o sorted(strs \ {least})

get_categories ==
    /\ route' = "get_categories"
    /\ resp' = [Response(200, "") EXCEPT !.categories =
                    sorted({products_db[i].category : i \in 1..Len(products_db)})]
    /\ UNCHANGED <<products_db, users_db, carts_db, credentials>>

(***************************************************************************)
(* Credential store: register, login                                       *)
(***************************************************************************)
\* a duplicate check that ignores case
EmailRegisteredIgnoreCase(email) ==
    \E i \in 1..Len(users_db) : Lower(users_db[i].email) = Lower(email)

\* any(u["email"] == request.email for u in users_db)
EmailRegistered(email) == \E i \in 1..Len(users_db) : users_db[i].email = email

\* str(uuid.uuid4()): an id no user has yet
NewUserId == Len(users_db) + 1

AuthResponse(user) ==
    [Response(200, "") EXCEPT
        !.token = create_token(Payload(user.id, user.email)),
        !.user = [id |-> user.id, email |-> user.email, name |-> user.name]]

register(request, salt) ==
    /\ route' = "register"
    /\ IF EmailRegistered(request.email)
       THEN /\ resp' = HTTPException(400, "Email already registered")
            /\ UNCHANGED <<products_db, users_db, carts_db, credentials>>
       ELSE LET user == [id |-> NewUserId, email |-> request.email,
                         password |-> pwd_hash(request.password, salt),
                         name |-> request.name]
            IN /\ resp' = AuthResponse(user)
               /\ users_db' = Append(users_db, user)
               /\ credentials' = Append(credentials,
                      [email |-> request.email, password |-> request.password])
               /\ UNCHANGED <<products_db, carts_db>>

\* next((u for u in users_db if u["email"] == request.email), None): index or 0
FindUser(email) ==
    FirstIndex({i \in 1..Len(users_db) : users_db[i].email = email})

\* a login that tells an unknown e-mail from a wrong password
LoginResponseTelling(email, password) ==
    LET i == FirstIndex({j \in 1..Len(users_db) : users_db[j].email = email})
    IN IF i = 0 THEN HTTPException(404, "User not found")
       ELSE IF ~pwd_verify(password, users_db[i].password)
       THEN HTTPException(401, "Invalid credentials")
       ELSE AuthResponse(users_db[i])

\* the response of login
LoginResponse(email, password) ==
    LET i == FindUser(email)
    IN IF i = 0 \/ ~pwd_verify(password, users_db[i].password)
       THEN HTTPException(401, "Invalid credentials")
       ELSE AuthResponse(users_db[i])

login(email, password) ==
    /\ route' = "login"
    /\ resp' = LoginResponse(email, password)
    /\ UNCHANGED <<products_db, users_db, carts_db, credentials>>

(***************************************************************************)
(* Cart store                                                              *)
(***************************************************************************)
\* carts_db.get(user_id, {"items": []})["items"]
CartItems(user_id) ==
    IF user_id \in DOMAIN carts_db THEN carts_db[user_id].items ELSE <<>>

\* next((item for item in cart["items"] if item["product_id"] == product_id), None)
FindItem(items, product_id) ==
    FirstIndex({i \in 1..Len(items) : items[i].product_id = product_id})

\* the loop of get_cart: each line joined with its product, unresolved lines dropped
RECURSIVE cart_with_products(_)
cart_with_products(items) ==
    IF items = <<>> THEN <<>>
    ELSE LET i == FindProduct(Head(items).product_id)
         IN (IF i # 0
             THEN <<[product |-> products_db[i], quantity |-> Head(items).quantity]>>
             ELSE <<>>) \o cart_with_products(Tail(items))

\* a total that adds up unit prices and forgets the quantities
RECURSIVE TotalPrices(_)
TotalPrices(enriched) ==
    IF enriched = <<>> THEN 0
    ELSE Head(enriched).product.price + TotalPrices(Tail(enriched))

\* sum(item["product"]["price"] * item["quantity"] for item in cart_with_products)
RECURSIVE Total(_)
Total(enriched) ==
    IF enriched = <<>> THEN 0
    ELSE Head(enriched).product.price * Head(enriched).quantity + Total(Tail(enriched))

\* what get_cart returns for a cart with these lines
GetCartView(items) ==
    LET enriched == cart_with_products(items)
    IN [Response(200, "") EXCEPT !.items = enriched, !.total = Total(enriched)]

GetCartResponse(user_id) == GetCartView(CartItems(user_id))

\* a get that persists the empty cart it builds (carts_db.setdefault)
get_cartCreates(current_user) ==
    /\ route' = "get_cart"
    /\ resp' = GetCartResponse(current_user.user_id)
    /\ carts_db' = [u \in DOMAIN carts_db \cup {current_user.user_id} |->
                       IF u \in DOMAIN carts_db THEN carts_db[u]
                       ELSE [user_id |-> u, items |-> <<>>]]
    /\ UNCHANGED <<products_db, users_db, credentials>>

get_cart(current_user) ==
    /\ route' = "get_cart"
    /\ resp' = GetCartResponse(current_user.user_id)
    /\ UNCHANGED <<products_db, users_db, carts_db, credentials>>

\* add that overwrites the quantity of an existing line instead of summing
AddItemsReplace(items, product_id, quantity) ==
    LET i == FirstIndex({j \in 1..Len(items) : items[j].product_id = product_id})
    IN IF i # 0
       THEN [items EXCEPT ![i].quantity = quantity]
       ELSE Append(items, [product_id |-> product_id, quantity |-> quantity])

\* add that never looks for an existing line
AddItemsAppend(items, product_id, quantity) ==
    Append(items, [product_id |-> product_id, quantity |-> quantity])

\* add that drops a line whose summed quantity is no longer positive
AddItemsDropEmpty(items, product_id, quantity) ==
    LET i == FirstIndex({j \in 1..Len(items) : items[j].product_id = product_id})
    IN IF i = 0
       THEN Append(items, [product_id |-> product_id, quantity |-> quantity])
       ELSE IF items[i].quantity + quantity <= 0
       THEN RemoveAt(items, i)
       ELSE [items EXCEPT ![i].quantity = @ + quantity]

\* the lines of a cart after add: summed into the line, or a new line appended
AddItems(items, product_id, quantity) ==
    LET i == FindItem(items, product_id)
    IN IF i # 0
       THEN [items EXCEPT ![i].quantity = @ + quantity]
       ELSE Append(items, [product_id |-> product_id, quantity |-> quantity])

\* add that takes the quantity out of the product's stock
add_to_cartReserves(current_user, product_id, quantity) ==
    LET user_id == current_user.user_id
        i == FirstIndex({j \in 1..Len(products_db) : products_db[j].id = product_id})
    IN /\ route' = "add_to_cart"
       /\ IF i = 0
          THEN /\ resp' = HTTPException(404, "Product not found")
               /\ UNCHANGED <<products_db, users_db, carts_db, credentials>>
          ELSE LET items == AddItems(CartItems(user_id), product_id, quantity)
               IN /\ resp' = [Response(200, "Item added to cart") EXCEPT
                                 !.cart_items = Len(items)]
                  /\ \A k \in 1..Len(items) : items[k].quantity \in StoredQtys
                  /\ carts_db' = [u \in DOMAIN carts_db \cup {user_id} |->
                                     IF u = user_id
                                     THEN [user_id |-> user_id, items |-> items]
                                     ELSE carts_db[u]]
                  /\ products_db' = [products_db EXCEPT ![i].stock = @ - quantity]
                  /\ UNCHANGED <<users_db, credentials>>

\* add that gets or creates the cart before it verifies the product
add_to_cartCreatesFirst(current_user, product_id, quantity) ==
    LET user_id == current_user.user_id
        created == [u \in DOMAIN carts_db \cup {user_id} |->
                       IF u \in DOMAIN carts_db THEN carts_db[u]
                       ELSE [user_id |-> u, items |-> <<>>]]
    IN /\ route' = "add_to_cart"
       /\ IF FindProduct(product_id) = 0
          THEN /\ resp' = HTTPException(404, "Product not found")
               /\ carts_db' = created
               /\ UNCHANGED <<products_db, users_db, credentials>>
          ELSE LET items == AddItems(created[user_id].items, product_id, quantity)
               IN /\ resp' = [Response(200, "Item added to cart") EXCEPT
                                 !.cart_items = Len(items)]
                  /\ \A i \in 1..Len(items) : items[i].quantity \in StoredQtys
                  /\ carts_db' = [created EXCEPT ![user_id].items = items]
                  /\ UNCHANGED <<products_db, users_db, credentials>>

\* add that does not verify that the product exists
add_to_cartUnverified(current_user, product_id, quantity) ==
    LET user_id == current_user.user_id
        items == AddItems(CartItems(user_id), product_id, quantity)
    IN /\ route' = "add_to_cart"
       /\ resp' = [Response(200, "Item added to cart") EXCEPT
                      !.cart_items = Len(items)]
       /\ \A i \in 1..Len(items) : items[i].quantity \in StoredQtys
       /\ carts_db' = [u \in DOMAIN carts_db \cup {user_id} |->
                          IF u = user_id
                          THEN [user_id |-> user_id, items |-> items]
                          ELSE carts_db[u]]
       /\ UNCHANGED <<products_db, users_db, credentials>>

add_to_cart(current_user, product_id, quantity) ==
    LET user_id == current_user.user_id
    IN /\ route' = "add_to_cart"
       /\ IF FindProduct(product_id) = 0
          THEN /\ resp' = HTTPException(404, "Product not found")
               /\ UNCHANGED <<products_db, users_db, carts_db, credentials>>
          ELSE LET items == AddItems(CartItems(user_id), product_id, quantity)
               IN /\ resp' = [Response(200, "Item added to cart") EXCEPT
                                 !.cart_items = Len(items)]
                  /\ \A i \in 1..Len(items) : items[i].quantity \in StoredQtys
                  /\ carts_db' = [u \in DOMAIN carts_db \cup {user_id} |->
                                     IF u = user_id
                                     THEN [user_id |-> user_id, items |-> items]
                                     ELSE carts_db[u]]
                  /\ UNCHANGED <<products_db, users_db, credentials>>

\* update that removes the line only for a negative quantity
UpdateItemsStrict(items, i, quantity) ==
    IF quantity < 0
    THEN RemoveAt(items, i)
    ELSE [items EXCEPT ![i].quantity = quantity]

\* update that sums the quantity into the line
UpdateItemsSum(items, i, quantity) ==
    IF quantity <= 0
    THEN RemoveAt(items, i)
    ELSE [items EXCEPT ![i].quantity = @ + quantity]

\* the lines of a cart after update found line i
UpdateItems(items, i, quantity) ==
    IF quantity <= 0
    THEN RemoveAt(items, FirstIndex({j \in 1..Len(items) : items[j] = items[i]}))
    ELSE [items EXCEPT ![i].quantity = quantity]

\* update that appends the line when the cart has none for the product
update_cart_itemUpsert(current_user, product_id, quantity) ==
    LET user_id == current_user.user_id
    IN /\ route' = "update_cart_item"
       /\ IF user_id \notin DOMAIN carts_db
          THEN /\ resp' = HTTPException(404, "Cart not found")
               /\ UNCHANGED <<products_db, users_db, carts_db, credentials>>
          ELSE /\ resp' = Response(200, "Cart updated")
               /\ carts_db' = [carts_db EXCEPT ![user_id].items =
                      IF FindItem(@, product_id) = 0
                      THEN Append(@, [product_id |-> product_id, quantity |-> quantity])
                      ELSE UpdateItems(@, FindItem(@, product_id), quantity)]
               /\ UNCHANGED <<products_db, users_db, credentials>>

\* an update that deletes the cart record with its last line
update_cart_itemDropsCart(current_user, product_id, quantity) ==
    LET user_id == current_user.user_id
    IN /\ route' = "update_cart_item"
       /\ IF user_id \notin DOMAIN carts_db
          THEN /\ resp' = HTTPException(404, "Cart not found")
               /\ UNCHANGED <<products_db, users_db, carts_db, credentials>>
          ELSE IF FindItem(carts_db[user_id].items, product_id) = 0
          THEN /\ resp' = HTTPException(404, "Item not found in cart")
               /\ UNCHANGED <<products_db, users_db, carts_db, credentials>>
          ELSE LET items == UpdateItems(carts_db[user_id].items,
                                        FindItem(carts_db[user_id].items, product_id),
                                        quantity)
               IN /\ resp' = Response(200, "Cart updated")
                  /\ carts_db' = IF items = <<>>
                                  THEN [u \in DOMAIN carts_db \ {user_id} |-> carts_db[u]]
                                  ELSE [carts_db EXCEPT ![user_id].items = items]
                  /\ UNCHANGED <<products_db, users_db, credentials>>

update_cart_item(current_user, product_id, quantity) ==
    LET user_id == current_user.user_id
    IN /\ route' = "update_cart_item"
       /\ IF user_id \notin DOMAIN carts_db
          THEN /\ resp' = HTTPException(404, "Cart not found")
               /\ UNCHANGED <<products_db, users_db, carts_db, credentials>>
          ELSE IF FindItem(carts_db[user_id].items, product_id) = 0
          THEN /\ resp' = HTTPException(404, "Item not found in cart")
               /\ UNCHANGED <<products_db, users_db, carts_db, credentials>>
          ELSE /\ resp' = Response(200, "Cart updated")
               /\ carts_db' = [carts_db EXCEPT ![user_id].items =
                      UpdateItems(@, FindItem(@, product_id), quantity)]
               /\ UNCHANGED <<products_db, users_db, credentials>>

\* remove that drops the line and every line after it
RemoveItemsTruncate(items, product_id) ==
    LET i == FirstIndex({j \in 1..Len(items) : items[j].product_id = product_id})
    IN IF i = 0 THEN items ELSE SubSeq(items, 1, i - 1)

\* [item for item in cart["items"] if item["product_id"] != product_id]
RECURSIVE RemoveItems(_, _)
RemoveItems(items, product_id) ==
    IF items = <<>> THEN <<>>
    ELSE (IF Head(items).product_id # product_id THEN <<Head(items)>> ELSE <<>>)
             \o RemoveItems(Tail(items), product_id)

\* a remove that treats a missing cart as an empty one
remove_from_cartLenient(current_user, product_id) ==
    LET user_id == current_user.user_id
    IN /\ route' = "remove_from_cart"
       /\ resp' = Response(200, "Item removed from cart")
       /\ carts_db' = [u \in DOMAIN carts_db |->
                          [carts_db[u] EXCEPT !.items =
                              IF u = user_id THEN RemoveItems(@, product_id) ELSE @]]
       /\ UNCHANGED <<products_db, users_db, credentials>>

\* a remove that takes the product out of every cart
remove_from_cartEveryone(current_user, product_id) ==
    LET user_id == current_user.user_id
    IN /\ route' = "remove_from_cart"
       /\ IF user_id \notin DOMAIN carts_db
          THEN /\ resp' = HTTPException(404, "Cart not found")
               /\ UNCHANGED <<products_db, users_db, carts_db, credentials>>
          ELSE /\ resp' = Response(200, "Item removed from cart")
               /\ carts_db' = [u \in DOMAIN carts_db |->
                                   [carts_db[u] EXCEPT !.items =
                                       RemoveItems(@, product_id)]]
               /\ UNCHANGED <<products_db, users_db, credentials>>

remove_from_cart(current_user, product_id) ==
    LET user_id == current_user.user_id
    IN /\ route' = "remove_from_cart"
       /\ IF user_id \notin DOMAIN carts_db
          THEN /\ resp' = HTTPException(404, "Cart not found")
               /\ UNCHANGED <<products_db, users_db, carts_db, credentials>>
          ELSE /\ resp' = Response(200, "Item removed from cart")
               /\ carts_db' = [carts_db EXCEPT ![user_id].items =
                                   RemoveItems(@, product_id)]
               /\ UNCHANGED <<products_db, users_db, credentials>>

(***************************************************************************)
(* The system                                                              *)
(***************************************************************************)
\* module load: the four stores, products seeded by init_products()
Init ==
    /\ products_db = sample_products
    /\ users_db = <<>>
    /\ carts_db = <<>>
    /\ route = ""
    /\ resp = Response(0, "")
    /\ credentials = <<>>
    /\ in_flight = [c \in Clients |-> Idle]

\* The actions below serve a request alone, with nothing else in flight.
Register == \E r \in RegisterRequests, s \in Salts : register(r, s) /\ UNCHANGED in_flight

Login == \E e \in Emails, p \in Passwords : login(e, p) /\ UNCHANGED in_flight

\* a cart request carrying a bearer token: Depends(get_current_user) runs first,
\* and the handler runs with the verified payload
GetCartRequest(token) ==
    IF verify_token(token) = None THEN Rejected("get_cart")
    ELSE get_cart(verify_token(token))

AddToCartRequest(token, product_id, quantity) ==
    IF verify_token(token) = None THEN Rejected("add_to_cart")
    ELSE add_to_cart(verify_token(token), product_id, quantity)

UpdateCartItemRequest(token, product_id, quantity) ==
    IF verify_token(token) = None THEN Rejected("update_cart_item")
    ELSE update_cart_item(verify_token(token), product_id, quantity)

RemoveFromCartRequest(token, product_id) ==
    IF verify_token(token) = None THEN Rejected("remove_from_cart")
    ELSE remove_from_cart(verify_token(token), product_id)

\* the parameters to try with a token: all of them when the handler will run,
\* one when the request is refused before the handler sees them
ParamsFor(token, params) ==
    IF verify_token(token) = None THEN {CHOOSE x \in params : TRUE} ELSE params

GetCart == \E t \in Tokens : GetCartRequest(t) /\ UNCHANGED in_flight

AddToCart ==
    \E t \in Tokens :
        \E x \in ParamsFor(t, ReqProductIds \X Qtys) : AddToCartRequest(t, x[1], x[2]) /\ UNCHANGED in_flight

UpdateCartItem ==
    \E t \in Tokens :
        \E x \in ParamsFor(t, ReqProductIds \X Qtys) : UpdateCartItemRequest(t, x[1], x[2]) /\ UNCHANGED in_flight

RemoveFromCart ==
    \E t \in Tokens :
        \E p \in ParamsFor(t, ReqProductIds) : RemoveFromCartRequest(t, p) /\ UNCHANGED in_flight

HealthCheck == health_check /\ UNCHANGED in_flight

GetProducts == \E c \in Categories, q \in Searches : get_products(c, q) /\ UNCHANGED in_flight

GetProduct == \E p \in ReqProductIds : get_product(p) /\ UNCHANGED in_flight

GetCategories == get_categories /\ UNCHANGED in_flight

\* one more than the stock of the product, 1 for an id no product has
OverStock(product_id) ==
    IF FindProduct(product_id) = 0 THEN 1
    ELSE products_db[FindProduct(product_id)].stock + 1

\* an add that orders more than the product's stock
AddToCartBulk ==
    \E t \in Tokens :
        \E p \in ParamsFor(t, ReqProductIds) : AddToCartRequest(t, p, OverStock(p)) /\ UNCHANGED in_flight

Next ==
    \/ Register
    \/ Login
    \/ GetCart
    \/ AddToCart
    \/ UpdateCartItem
    \/ RemoveFromCart

Spec == Init /\ [][Next]_vars

\* the endpoints that take no token
PublicNext ==
    \/ Register
    \/ Login
    \/ HealthCheck
    \/ GetProducts
    \/ GetProduct
    \/ GetCategories

PublicSpec == Init /\ [][PublicNext]_vars

\* every endpoint, the adds ordering more than the stock
ShopNext ==
    \/ Register
    \/ Login
    \/ HealthCheck
    \/ GetProducts
    \/ GetProduct
    \/ GetCategories
    \/ GetCart
    \/ AddToCartBulk
    \/ UpdateCartItem
    \/ RemoveFromCart

ShopSpec == Init /\ [][ShopNext]_vars

(***************************************************************************)
(* Add requests in flight together                                         *)
(***************************************************************************)
\* the quantity of the user's line for the product, 0 without a line
LineQuantity(user_id, product_id) ==
    LET items == CartItems(user_id)
        i == FindItem(items, product_id)
    IN IF i = 0 THEN 0 ELSE items[i].quantity

\* POST /api/cart/add as it arrives.  pc is where the request stands:
\* "depends" before get_current_user, "handler" before the body of add_to_cart,
\* "respond" before the response is sent.  seen, overtaken and overtook are
\* history, no part of the program: the quantity of the line when the request
\* arrived, the sum of the quantities that adds for the same user and product
\* have put in while it waited, and the clients whose requests for the same
\* user and product were waiting when its own handler added.
AddRequest(token, product_id, quantity) ==
    [token |-> token, product_id |-> product_id, quantity |-> quantity,
     pc |-> "depends", current_user |-> None, status |-> 0,
     seen |-> LineQuantity(verify_token(token).user_id, product_id),
     overtaken |-> 0, overtook |-> {}]

\* client c sends an add request and waits for its response
ReceiveAdd(c) ==
    \E t \in Tokens :
        \E x \in ParamsFor(t, FlightProductIds \X FlightQtys) :
            /\ in_flight[c] = Idle
            /\ in_flight' = [in_flight EXCEPT ![c] = AddRequest(t, x[1], x[2])]
            /\ UNCHANGED <<products_db, users_db, carts_db, route, resp, credentials>>

\* Depends(get_current_user) of the request of client c: the payload for the
\* handler, or 401 and no handler
ResolveDependency(c) ==
    LET r == in_flight[c]
        payload == verify_token(r.token)
    IN /\ r.pc = "depends"
       /\ IF payload = None
          THEN /\ Rejected("add_to_cart")
               /\ in_flight' = [in_flight EXCEPT ![c].pc = "respond",
                                                  ![c].status = Unauthorized.status]
          ELSE /\ in_flight' = [in_flight EXCEPT ![c].pc = "handler",
                                                  ![c].current_user = payload]
               /\ UNCHANGED <<products_db, users_db, carts_db, route, resp, credentials>>

\* history: the clients whose requests wait for the user and product of the
\* request of client c
Waiting(c) ==
    {k \in Clients \ {c} :
        /\ in_flight[k].pc \in {"depends", "handler"}
        /\ verify_token(in_flight[k].token).user_id = in_flight[c].current_user.user_id
        /\ in_flight[k].product_id = in_flight[c].product_id}

\* the requests in flight after the handler of client c's request has returned
Handled(c) ==
    IF FindProduct(in_flight[c].product_id) = 0
    THEN [in_flight EXCEPT ![c].pc = "respond", ![c].status = 404]
    ELSE [k \in Clients |->
             IF k = c
             THEN [in_flight[c] EXCEPT !.pc = "respond", !.status = 200,
                                       !.overtook = Waiting(c)]
             ELSE IF k \in Waiting(c)
             THEN [in_flight[k] EXCEPT !.overtaken = @ + in_flight[c].quantity]
             ELSE in_flight[k]]

\* a handler that adds to the quantity the line had when the request arrived
RunHandlerStale(c) ==
    LET r == in_flight[c]
        user_id == r.current_user.user_id
        items == CartItems(user_id)
        j == FindItem(items, r.product_id)
    IN /\ r.pc = "handler"
       /\ route' = "add_to_cart"
       /\ in_flight' = Handled(c)
       /\ IF FindProduct(r.product_id) = 0
          THEN /\ resp' = HTTPException(404, "Product not found")
               /\ UNCHANGED <<products_db, users_db, carts_db, credentials>>
          ELSE LET lines == IF j # 0
                            THEN [items EXCEPT ![j].quantity = r.seen + r.quantity]
                            ELSE Append(items, [product_id |-> r.product_id,
                                                quantity |-> r.quantity])
               IN /\ resp' = [Response(200, "Item added to cart") EXCEPT
                                 !.cart_items = Len(lines)]
                  /\ \A k \in 1..Len(lines) : lines[k].quantity \in StoredQtys
                  /\ carts_db' = [u \in DOMAIN carts_db \cup {user_id} |->
                                     IF u = user_id
                                     THEN [user_id |-> user_id, items |-> lines]
                                     ELSE carts_db[u]]
                  /\ UNCHANGED <<products_db, users_db, credentials>>

\* the body of add_to_cart for the request of client c: the event loop runs it
\* from its first statement to its return with nothing in between
RunHandler(c) ==
    LET r == in_flight[c]
    IN /\ r.pc = "handler"
       /\ add_to_cart(r.current_user, r.product_id, r.quantity)
       /\ in_flight' = Handled(c)

\* the response is sent and client c has no request in flight
SendResponse(c) ==
    /\ in_flight[c].pc = "respond"
    /\ in_flight' = [k \in Clients |->
                         IF k = c THEN Idle
                         ELSE [in_flight[k] EXCEPT !.overtook = @ \ {c}]]
    /\ UNCHANGED <<products_db, users_db, carts_db, route, resp, credentials>>

Receive == \E c \in Clients : ReceiveAdd(c)

GetCurrentUser == \E c \in Clients : ResolveDependency(c)

AddToCartBody == \E c \in Clients : RunHandler(c)

Respond == \E c \in Clients : SendResponse(c)

ConcNext ==
    \/ Register
    \/ Receive
    \/ GetCurrentUser
    \/ AddToCartBody
    \/ Respond

ConcSpec == Init /\ [][ConcNext]_vars

(***************************************************************************)
(* Vocabulary of the properties                                            *)
(***************************************************************************)
\* the positions of the lines for product p
LinesFor(items, p) == {i \in 1..Len(items) : items[i].product_id = p}

\* the quantity of the first line for product p
QtyOf(items, p) == items[CHOOSE i \in LinesFor(items, p) : \A j \in LinesFor(items, p) : i <= j].quantity

\* the lines for products other than p, in order
Others(items, p) == SelectSeq(items, LAMBDA x : x.product_id # p)

\* the product ids of the catalog among those requests carry
CatalogIds == {p \in ReqProductIds : \E i \in 1..Len(products_db) : products_db[i].id = p}

\* the users a verified token can name
Users == {users_db[i].id : i \in 1..Len(users_db)}

\* no store changes
StoresUnchanged == UNCHANGED <<products_db, users_db, carts_db>>

\* an add step for a catalog product: what it leaves in the cart
C1_AddStep ==
    route' = "add_to_cart" =>
        \A cu \in UserPayloads, p \in CatalogIds, k \in Qtys :
            add_to_cart(cu, p, k) =>
                LET old == CartItems(cu.user_id)
                    new == carts_db'[cu.user_id].items
                IN /\ resp'.status = 200
                   /\ Cardinality(LinesFor(new, p)) = 1
                   /\ Others(new, p) = Others(old, p)
                   /\ IF LinesFor(old, p) = {}
                      THEN new = Append(old, [product_id |-> p, quantity |-> k])
                      ELSE /\ QtyOf(new, p) = QtyOf(old, p) + k
                           /\ LinesFor(new, p) = LinesFor(old, p)
                           /\ Len(new) = Len(old)

\* add a then add b, from any reachable cart without a line for p
C1_AddTwice ==
    \A u \in Users, p \in CatalogIds, a \in Qtys \cup {2, 3}, b \in Qtys \cup {2, 3} :
        LinesFor(CartItems(u), p) = {} =>
            LET twice == AddItems(AddItems(CartItems(u), p, a), p, b)
            IN /\ Cardinality(LinesFor(twice, p)) = 1
               /\ QtyOf(twice, p) = a + b
               /\ Others(twice, p) = CartItems(u)

\* C1: add(u, p, k) on a cart without a line for p leaves exactly one line for
\* p, of quantity k, appended after the other lines; on a cart whose line for p
\* has quantity n it leaves that single line with quantity n + k; every other
\* line is unchanged; so from a cart without p, add a then add b gives a single
\* line of quantity a + b (2 then 3 gives 5).
C1_AddSums == [][C1_AddStep]_vars /\ []C1_AddTwice

\* a successful add has just left a cart with two lines, one of them holding a
\* quantity (2) that only adds summed into a line can produce
C1_Witness ==
    /\ route = "add_to_cart"
    /\ resp.status = 200
    /\ resp.cart_items = 2
    /\ \E u \in DOMAIN carts_db :
          /\ Len(carts_db[u].items) = 2
          /\ \E i \in 1..2 : carts_db[u].items[i].quantity = 2

\* C2: every cart holds at most one line per product_id.
C2_OneLinePerProduct ==
    \A u \in DOMAIN carts_db :
        \A i, j \in 1..Len(carts_db[u].items) :
            carts_db[u].items[i].product_id = carts_db[u].items[j].product_id => i = j

\* an update has just succeeded while a cart holds lines for both products, the
\* first of them with the quantity two adds summed to
C2_Witness ==
    /\ route = "update_cart_item"
    /\ resp.status = 200
    /\ \E u \in DOMAIN carts_db :
          /\ Len(carts_db[u].items) = 2
          /\ carts_db[u].items[1].quantity = 2
          /\ carts_db[u].items[2].quantity = 1

\* C3: the quantity of every line in every cart is a positive integer.
C3_QuantitiesPositive ==
    \A u \in DOMAIN carts_db :
        \A i \in 1..Len(carts_db[u].items) : carts_db[u].items[i].quantity >= 1

\* C4 as claimed: remove(u, p) for a user without a cart record succeeds with an
\* acknowledgement and leaves every store unchanged.
C4_RemoveNoCartSucceeds ==
    [][\A cu \in UserPayloads, p \in ReqProductIds :
          (route' = "remove_from_cart" /\ cu.user_id \notin DOMAIN carts_db
              /\ remove_from_cart(cu, p)) =>
                  resp'.status = 200 /\ StoresUnchanged]_vars

\* C4 amended: remove(u, p) for a user without a cart record fails with NotFound
\* (404, "Cart not found") and leaves every store unchanged.
C4_RemoveNoCartNotFound ==
    [][\A cu \in UserPayloads, p \in ReqProductIds :
          (route' = "remove_from_cart" /\ cu.user_id \notin DOMAIN carts_db
              /\ remove_from_cart(cu, p)) =>
                  /\ resp'.status = 404
                  /\ resp'.msg = "Cart not found"
                  /\ StoresUnchanged]_vars

\* a remove has just been answered while its user (the second one registered,
\* the first one holding a cart) has no cart record
C4_Witness ==
    /\ route = "remove_from_cart"
    /\ resp.status = 404
    /\ Len(users_db) = 2
    /\ DOMAIN carts_db = {1}

\* a remove step of a user who has a cart
C5_RemoveStep ==
    \A cu \in UserPayloads, p \in ReqProductIds :
        (route' = "remove_from_cart" /\ cu.user_id \in DOMAIN carts_db
            /\ remove_from_cart(cu, p)) =>
                LET old == carts_db[cu.user_id].items
                    new == carts_db'[cu.user_id].items
                IN /\ resp'.status = 200
                   /\ LinesFor(new, p) = {}
                   /\ new = Others(old, p)
                   /\ \A v \in DOMAIN carts_db : v # cu.user_id => carts_db'[v] = carts_db[v]
                   /\ DOMAIN carts_db' = DOMAIN carts_db

\* remove(u, p) taken from a state a successful remove(u, p) has just produced
C5_RemoveAgain ==
    \A cu \in UserPayloads, p \in ReqProductIds :
        (route = "remove_from_cart" /\ resp.status = 200
            /\ route' = "remove_from_cart" /\ cu.user_id \in DOMAIN carts_db
            /\ LinesFor(carts_db[cu.user_id].items, p) = {}
            /\ remove_from_cart(cu, p)) =>
                resp'.status = 200 /\ carts_db' = carts_db

\* C5: for a user with a cart, remove(u, p) succeeds, leaves no line for p and
\* the other lines unchanged in their order, whether or not p was present; a
\* second remove(u, p) succeeds too and leaves the lines as the first left them.
C5_RemoveIdempotent == [][C5_RemoveStep /\ C5_RemoveAgain]_vars

\* a successful remove has just left a cart with one line, beside a cart that
\* still holds two
C5_Witness ==
    /\ route = "remove_from_cart"
    /\ resp.status = 200
    /\ DOMAIN carts_db = {1, 2}
    /\ Len(carts_db[1].items) = 1
    /\ Len(carts_db[2].items) = 2

\* an update step with a quantity <= 0 on a line that exists
C6_UpdateStep ==
    route' = "update_cart_item" =>
        \A cu \in UserPayloads, p \in ReqProductIds :
            (cu.user_id \in DOMAIN carts_db /\ LinesFor(CartItems(cu.user_id), p) # {}) =>
                \A q \in {k \in Qtys : k <= 0} :
                    update_cart_item(cu, p, q) =>
                        LET old == carts_db[cu.user_id].items
                            new == carts_db'[cu.user_id].items
                        IN /\ resp'.status = 200
                           /\ LinesFor(new, p) = {}
                           /\ new = Others(old, p)
                           /\ products_db' = products_db
                           /\ \A got \in {GetCartView(new)} :
                                 /\ got.status = 200
                                 /\ \A i \in 1..Len(got.items) :
                                       got.items[i].product.id # p

\* C6: for a cart with a line for p and q <= 0, update(u, p, q) succeeds and
\* removes the line: the other lines are unchanged and get(u) shows no line for p
\* (get's answer in the state after the step: the new lines joined with the
\* catalog, which the step leaves as it was).
C6_UpdateNonPositiveRemoves == [][C6_UpdateStep]_vars

\* a successful update has just emptied the only cart there is
C6_Witness ==
    /\ route = "update_cart_item"
    /\ resp.status = 200
    /\ DOMAIN carts_db = {1}
    /\ carts_db[1].items = <<>>

\* an update step with a quantity > 0 on a line that exists
C7_UpdateStep ==
    route' = "update_cart_item" =>
        \A cu \in UserPayloads, p \in ReqProductIds :
            (cu.user_id \in DOMAIN carts_db /\ LinesFor(CartItems(cu.user_id), p) # {}) =>
                \A m \in {k \in Qtys : k > 0} :
                    update_cart_item(cu, p, m) =>
                        LET old == carts_db[cu.user_id].items
                            new == carts_db'[cu.user_id].items
                        IN /\ resp'.status = 200
                           /\ Len(new) = Len(old)
                           /\ \A i \in 1..Len(old) :
                                 /\ new[i].product_id = old[i].product_id
                                 /\ new[i].quantity = IF old[i].product_id = p THEN m
                                                      ELSE old[i].quantity
                           /\ products_db' = products_db
                           /\ \A got \in {GetCartView(new)} :
                                 /\ got.status = 200
                                 /\ \E i \in 1..Len(got.items) :
                                       /\ got.items[i].product.id = p
                                       /\ got.items[i].quantity = m

\* C7: for a cart with a line for p of quantity n and m > 0, update(u, p, m)
\* sets the quantity of that line to m, not n + m, keeps the line in place and
\* the other lines unchanged; get(u) then reports quantity m for p.
C7_UpdateReplaces == [][C7_UpdateStep]_vars

\* a successful update has just left quantity 1 on the first of two lines, the
\* second line holding 2
C7_Witness ==
    /\ route = "update_cart_item"
    /\ resp.status = 200
    /\ \E u \in DOMAIN carts_db :
          /\ Len(carts_db[u].items) = 2
          /\ carts_db[u].items[1].quantity = 1
          /\ carts_db[u].items[2].quantity = 2

\* a register step, by whether its e-mail is that of a registered user
C8_RegisterStep ==
    \A r \in RegisterRequests, salt \in Salts :
        (route' = "register" /\ register(r, salt)) =>
            IF \E i \in 1..Len(users_db) : users_db[i].email = r.email
            THEN /\ resp'.status = 400
                 /\ resp'.msg = "Email already registered"
                 /\ resp'.token = NoToken
                 /\ StoresUnchanged
            ELSE /\ resp'.status = 200
                 /\ Len(users_db') = Len(users_db) + 1
                 /\ SubSeq(users_db', 1, Len(users_db)) = users_db
                 /\ users_db'[Len(users_db')].email = r.email
                 /\ UNCHANGED <<products_db, carts_db>>

\* C8: register with an e-mail that exactly (case-sensitively) equals that of a
\* registered user fails with DuplicateEmail (400), returns no token and leaves
\* every store unchanged; register with an e-mail not yet present succeeds and
\* appends exactly one user, carrying that e-mail.
C8_DuplicateEmail == [][C8_RegisterStep]_vars

\* a registration has just been refused while "A" and "a" are both registered
C8_Witness ==
    /\ route = "register"
    /\ resp.status = 400
    /\ Len(users_db) = 2
    /\ users_db[1].email # users_db[2].email
    /\ Lower(users_db[1].email) = Lower(users_db[2].email)

\* a login step with the credentials of the i-th registration
C9_LoginStep ==
    \A i \in 1..Len(credentials) :
        (route' = "login" /\ login(credentials[i].email, credentials[i].password)) =>
            /\ resp'.status = 200
            /\ verify_token(resp'.token) = Payload(users_db[i].id, users_db[i].email)
            /\ users_db[i].email = credentials[i].email

\* a register step that creates a user
C9_RegisterStep ==
    \A r \in RegisterRequests, salt \in Salts :
        (route' = "register" /\ register(r, salt) /\ users_db' # users_db) =>
            LET user == users_db'[Len(users_db')]
            IN /\ resp'.status = 200
               /\ verify_token(resp'.token) = Payload(user.id, user.email)
               /\ user.email = r.email
               /\ \A i \in 1..Len(users_db) : users_db[i].id # user.id

\* C9: for every registered (email, password) pair, login in any later state
\* succeeds with a token whose verify gives the user_id and email of the user
\* record that registration created; so does the token register returns.
C9_LoginRoundTrip == [][C9_LoginStep /\ C9_RegisterStep]_vars

\* the first user has just logged in, after the second user registered
C9_Witness ==
    /\ route = "login"
    /\ resp.status = 200
    /\ Len(users_db) = 2
    /\ verify_token(resp.token) = Payload(users_db[1].id, users_db[1].email)

\* a get step
C10_GetStep ==
    \A cu \in UserPayloads :
        (route' = "get_cart" /\ get_cart(cu)) =>
            /\ StoresUnchanged
            /\ resp'.status = 200
            /\ cu.user_id \notin DOMAIN carts_db =>
                  /\ resp'.items = <<>>
                  /\ resp'.total = 0
                  /\ cu.user_id \notin DOMAIN carts_db'

\* an update step of a user without a cart record
C10_UpdateStep ==
    \A cu \in UserPayloads, p \in ReqProductIds, q \in Qtys :
        (route' = "update_cart_item" /\ cu.user_id \notin DOMAIN carts_db
            /\ update_cart_item(cu, p, q)) =>
                /\ resp'.status = 404
                /\ resp'.msg = "Cart not found"
                /\ carts_db' = carts_db

\* C10: get for a user without a cart returns an empty cart with total 0; no get
\* changes the cart store, so the user still has no cart record, and update for
\* a user without a cart record fails with NotFound for every product and
\* quantity.
C10_GetDoesNotCreate == [][C10_GetStep /\ C10_UpdateStep]_vars

\* a user without a cart record has just been shown an empty cart: two users
\* are registered and the only cart record there is holds a line
C10_Witness ==
    /\ route = "get_cart"
    /\ resp.status = 200
    /\ resp.items = <<>>
    /\ resp.total = 0
    /\ Len(users_db) = 2
    /\ Cardinality(DOMAIN carts_db) = 1
    /\ \A u \in DOMAIN carts_db : carts_db[u].items # <<>>

\* C11: add(u, p, q) with a product_id that is not in the catalog fails with
\* NotFound and leaves the cart store unchanged, so it creates no cart record for
\* a user who had none; add with a known product_id succeeds and the user has a
\* cart record afterwards, created if there was none.
C11_AddNotFound ==
    [][route' = "add_to_cart" =>
          \A cu \in UserPayloads, p \in ReqProductIds, q \in Qtys :
              add_to_cart(cu, p, q) =>
                  IF \E i \in 1..Len(products_db) : products_db[i].id = p
                  THEN /\ resp'.status = 200
                       /\ DOMAIN carts_db' = DOMAIN carts_db \cup {cu.user_id}
                       /\ carts_db'[cu.user_id].user_id = cu.user_id
                       /\ LinesFor(carts_db'[cu.user_id].items, p) # {}
                  ELSE /\ resp'.status = 404
                       /\ resp'.msg = "Product not found"
                       /\ carts_db' = carts_db
                       /\ cu.user_id \notin DOMAIN carts_db =>
                             cu.user_id \notin DOMAIN carts_db']_vars

\* an add has just been refused with NotFound while a user is registered and no
\* cart record exists
C11_Witness ==
    /\ route = "add_to_cart"
    /\ resp.status = 404
    /\ resp.msg = "Product not found"
    /\ Len(users_db) >= 1
    /\ DOMAIN carts_db = {}

\* C12: update(u, p, q) fails with NotFound for every quantity q when u has no
\* cart record ("Cart not found") or u's cart has no line for p ("Item not found
\* in cart"), and in both cases leaves the cart store unchanged.
C12_UpdateNotFound ==
    [][route' = "update_cart_item" =>
          \A cu \in UserPayloads, p \in ReqProductIds :
              (cu.user_id \notin DOMAIN carts_db \/ LinesFor(CartItems(cu.user_id), p) = {}) =>
                  \A q \in Qtys :
                      update_cart_item(cu, p, q) =>
                          /\ resp'.status = 404
                          /\ resp'.msg = IF cu.user_id \notin DOMAIN carts_db
                                         THEN "Cart not found"
                                         ELSE "Item not found in cart"
                          /\ carts_db' = carts_db]_vars

\* an update has just been refused for a missing line while the only cart
\* record holds a single line
C12_Witness ==
    /\ route = "update_cart_item"
    /\ resp.status = 404
    /\ resp.msg = "Item not found in cart"
    /\ Cardinality(DOMAIN carts_db) = 1
    /\ \A u \in DOMAIN carts_db : Len(carts_db[u].items) = 1

\* the current unit price of the catalog product with id p
CatalogPrice(p) ==
    products_db[CHOOSE i \in 1..Len(products_db) : products_db[i].id = p].price

\* the sum over the first n enriched lines of catalog unit price times quantity
RECURSIVE PriceSum(_, _)
PriceSum(lines, n) ==
    IF n = 0 THEN 0
    ELSE PriceSum(lines, n - 1) + CatalogPrice(lines[n].product.id) * lines[n].quantity

\* what get answers in a state: the total is the sum over the enriched lines,
\* priced from the catalog, and the enriched lines carry the stored quantities
C13_View ==
    \A u \in Users \cup {NewUserId} :
        \A got \in {GetCartResponse(u)} :
            /\ got.total = PriceSum(got.items, Len(got.items))
            /\ Len(got.items) = Len(CartItems(u))
            /\ \A i \in 1..Len(got.items) :
                  /\ got.items[i].product.id = CartItems(u)[i].product_id
                  /\ got.items[i].quantity = CartItems(u)[i].quantity
            /\ CartItems(u) = <<>> => got.total = 0

\* a get step: the response it leaves
C13_GetStep ==
    route' = "get_cart" =>
        \A cu \in UserPayloads :
            get_cart(cu) =>
                /\ resp'.status = 200
                /\ resp'.total = PriceSum(resp'.items, Len(resp'.items))
                /\ Len(resp'.items) = Len(CartItems(cu.user_id))
                /\ \A i \in 1..Len(resp'.items) :
                      /\ resp'.items[i].product.id = CartItems(cu.user_id)[i].product_id
                      /\ resp'.items[i].quantity = CartItems(cu.user_id)[i].quantity
                /\ CartItems(cu.user_id) = <<>> => resp'.total = 0

\* C13: in every reachable state the total get(u) returns equals the sum, over
\* the enriched lines it returns, of the product's current catalog unit price
\* times the line quantity; each enriched line carries the stored quantity of
\* its cart line; for a user with no cart or an empty cart the total is 0.
C13_TotalIsSum == []C13_View /\ [][C13_GetStep]_vars

\* a get has just shown two lines, two headphones and one pair of sneakers,
\* with their total
C13_Witness ==
    /\ route = "get_cart"
    /\ resp.status = 200
    /\ Len(resp.items) = 2
    /\ resp.items[1].quantity = 2
    /\ resp.items[2].quantity = 1
    /\ resp.total = 2 * 19999 + 12999

\* the product ids the lines of a cart name
ProductsIn(items) == {items[i].product_id : i \in 1..Len(items)}

\* a step that changes the status of a line (u, p) is one of the four transitions
C14_Step ==
    carts_db' # carts_db =>
        \A u \in DOMAIN carts_db \cup DOMAIN carts_db' :
            LET old == CartItems(u)
                new == IF u \in DOMAIN carts_db' THEN carts_db'[u].items ELSE <<>>
            IN \A p \in ProductsIn(old) \cup ProductsIn(new) :
                  LET was == LinesFor(old, p) # {}
                      is == LinesFor(new, p) # {}
                  IN (was # is \/ (was /\ is /\ QtyOf(new, p) # QtyOf(old, p))) =>
                        \E cu \in UserPayloads :
                            /\ cu.user_id = u
                            /\ resp'.status = 200
                            /\ \/ /\ ~was /\ is
                                  /\ \E k \in Qtys : add_to_cart(cu, p, k) /\ QtyOf(new, p) = k
                               \/ /\ was /\ is
                                  /\ \E k \in Qtys : /\ add_to_cart(cu, p, k)
                                                     /\ QtyOf(new, p) = QtyOf(old, p) + k
                               \/ /\ was /\ is
                                  /\ \E m \in Qtys : /\ m > 0
                                                     /\ update_cart_item(cu, p, m)
                                                     /\ QtyOf(new, p) = m
                               \/ /\ was /\ ~is
                                  /\ \/ \E q \in Qtys : q <= 0 /\ update_cart_item(cu, p, q)
                                     \/ remove_from_cart(cu, p)

\* C14: every step that changes the status of a cart line (user, product) is one
\* of four transitions: absent -> present(n) by add; present(n) -> present(n+k)
\* by add; present(n) -> present(m), m > 0, by update; present -> absent by
\* update with quantity <= 0 or by remove; each is a successful request of that
\* user for that product, and no other step changes a line.
C14_LineTransitions == [][C14_Step]_vars

\* a remove has just emptied the first user's cart while the second user's cart
\* holds a line that adds summed to 2
C14_Witness ==
    /\ route = "remove_from_cart"
    /\ resp.status = 200
    /\ DOMAIN carts_db = {1, 2}
    /\ carts_db[1].items = <<>>
    /\ Len(carts_db[2].items) = 1
    /\ carts_db[2].items[1].quantity = 2

\* a token that is malformed, names another algorithm or bears a signature that
\* is not the one SECRET_KEY gives its payload
Unverifiable(t) ==
    t.parts # 3 \/ t.alg # "HS256" \/ t.sig # Sign(SECRET_KEY, t.payload)

\* the carts of every user but u are as they were
OtherCartsSame(u) ==
    /\ DOMAIN carts_db' \ {u} = DOMAIN carts_db \ {u}
    /\ \A v \in DOMAIN carts_db \ {u} : carts_db'[v] = carts_db[v]

\* the answer to a request that is refused as unauthorized
C15_Refused == resp' = HTTPException(401, "Invalid token") /\ StoresUnchanged

\* the step was not refused and left the catalog, the users and the carts of
\* every user but u as they were
C15_Own(u) ==
    /\ resp'.status # 401
    /\ OtherCartsSame(u)
    /\ UNCHANGED <<products_db, users_db>>

\* the four cart routes: a step that is a request with an unverifiable token is
\* refused; one that is a request with the token of user u acts on u's cart
C15_GetStep ==
    /\ C15_Refused \/ \A t \in {x \in Tokens : Unverifiable(x)} : ~GetCartRequest(t)
    /\ \A t \in {x \in Tokens : ~Unverifiable(x)} :
          LET u == t.payload.user_id
          IN \/ /\ C15_Own(u)
                /\ carts_db' = carts_db
                /\ Len(resp'.items) = Len(CartItems(u))
                /\ \A i \in 1..Len(resp'.items) :
                      /\ resp'.items[i].product.id = CartItems(u)[i].product_id
                      /\ resp'.items[i].quantity = CartItems(u)[i].quantity
             \/ ~GetCartRequest(t)

C15_AddStep ==
    /\ C15_Refused
          \/ \A t \in {x \in Tokens : Unverifiable(x)}, p \in ReqProductIds, q \in Qtys :
                ~AddToCartRequest(t, p, q)
    /\ \A t \in {x \in Tokens : ~Unverifiable(x)} :
          LET u == t.payload.user_id
          IN \/ /\ C15_Own(u)
                /\ resp'.status = 200 =>
                      /\ u \in DOMAIN carts_db'
                      /\ resp'.cart_items = Len(carts_db'[u].items)
             \/ \A p \in ReqProductIds, q \in Qtys : ~AddToCartRequest(t, p, q)

C15_UpdateStep ==
    /\ C15_Refused
          \/ \A t \in {x \in Tokens : Unverifiable(x)}, p \in ReqProductIds, q \in Qtys :
                ~UpdateCartItemRequest(t, p, q)
    /\ \A t \in {x \in Tokens : ~Unverifiable(x)} :
          LET u == t.payload.user_id
          IN \/ /\ C15_Own(u)
                /\ resp'.status = 200 => u \in DOMAIN carts_db
             \/ \A p \in ReqProductIds, q \in Qtys : ~UpdateCartItemRequest(t, p, q)

C15_RemoveStep ==
    /\ C15_Refused
          \/ \A t \in {x \in Tokens : Unverifiable(x)}, p \in ReqProductIds :
                ~RemoveFromCartRequest(t, p)
    /\ \A t \in {x \in Tokens : ~Unverifiable(x)} :
          LET u == t.payload.user_id
          IN \/ /\ C15_Own(u)
                /\ resp'.status = 200 <=> u \in DOMAIN carts_db
             \/ \A p \in ReqProductIds : ~RemoveFromCartRequest(t, p)

\* a step of a cart route: whichever request it is, one with an unverifiable
\* token was refused, and one with the token of user u kept to u's cart
C15_Step ==
    CASE route' = "get_cart" -> C15_GetStep
      [] route' = "add_to_cart" -> C15_AddStep
      [] route' = "update_cart_item" -> C15_UpdateStep
      [] route' = "remove_from_cart" -> C15_RemoveStep
      [] OTHER -> TRUE

\* C15: every cart request (get, add, update, remove) with a token that does not
\* verify (malformed, wrong signature, unsupported algorithm) fails with
\* Unauthorized and leaves the user store, the cart store and the catalog
\* unchanged; a cart request whose token verifies acts on the cart of exactly the
\* user_id the token carries.
C15_Unauthorized == [][C15_Step]_vars

\* an add has just been refused as unauthorized while two users are registered
\* and both hold carts
C15_Witness ==
    /\ route = "add_to_cart"
    /\ resp.status = 401
    /\ resp.msg = "Invalid token"
    /\ Len(users_db) = 2
    /\ DOMAIN carts_db = {1, 2}

\* a login step: it succeeds for a registered (email, password) pair and fails
\* with the same response whether the e-mail is unknown or the password wrong
C16_LoginStep ==
    route' = "login" =>
        \A e \in Emails, pw \in Passwords :
            login(e, pw) =>
                /\ StoresUnchanged
                /\ IF \E i \in 1..Len(credentials) :
                          credentials[i] = [email |-> e, password |-> pw]
                   THEN resp'.status = 200
                   ELSE /\ resp'.status = 401
                        /\ resp'.msg = "Invalid credentials"
                        /\ resp'.token = NoToken
                        /\ resp'.user = NoUser

\* two failed logins in a row, whatever made each of them fail
C16_FailedTwice ==
    (route = "login" /\ resp.status # 200 /\ route' = "login" /\ resp'.status # 200) =>
        resp' = resp

\* C16: login fails with InvalidCredentials both when no user has the e-mail and
\* when the password does not verify against the stored hash; the two failures
\* have the same response (status and message), and neither changes any store.
C16_LoginFailuresAlike == [][C16_LoginStep /\ C16_FailedTwice]_vars

\* a login has just failed while both e-mails are registered, so on a wrong
\* password
C16_Witness ==
    /\ route = "login"
    /\ resp.status = 401
    /\ Len(users_db) = 2
    /\ \A e \in Emails : \E i \in 1..2 : users_db[i].email = e

\* the stock of the catalog product with id p
StockOf(p) ==
    products_db[CHOOSE i \in 1..Len(products_db) : products_db[i].id = p].stock

\* an add step that orders more than the stock of a catalog product
C17_AddStep ==
    route' = "add_to_cart" =>
        \A cu \in UserPayloads, p \in CatalogIds :
            add_to_cart(cu, p, OverStock(p)) =>
                /\ resp'.status = 200
                /\ QtyOf(carts_db'[cu.user_id].items, p) > StockOf(p)
                /\ products_db' = products_db

\* C17: the catalog is immutable after seeding: in every reachable state the
\* product list (ids, prices, stock, order) is the seeded list; no step changes
\* it, in particular no add decrements a stock, and add succeeds when the
\* resulting quantity exceeds the product's stock.
C17_CatalogImmutable ==
    /\ [](products_db = sample_products)
    /\ [][products_db' = products_db /\ C17_AddStep]_vars

\* an add has just succeeded and left a line whose quantity exceeds the stock
\* of its product, the stock being what it was seeded with
C17_Witness ==
    /\ route = "add_to_cart"
    /\ resp.status = 200
    /\ \E u \in DOMAIN carts_db : \E i \in 1..Len(carts_db[u].items) :
          /\ carts_db[u].items[i].quantity > StockOf(carts_db[u].items[i].product_id)
          /\ StockOf(carts_db[u].items[i].product_id) =
                sample_products[carts_db[u].items[i].product_id].stock

\* the category values of the products
CategoriesOf(products) == {products[i].category : i \in 1..Len(products)}

\* what categories() returns: the distinct category values of all products,
\* each once, ascending
C18_CategoriesSorted ==
    route = "get_categories" =>
        /\ resp.status = 200
        /\ {resp.categories[i] : i \in 1..Len(resp.categories)} = CategoriesOf(products_db)
        /\ \A i \in 1..(Len(resp.categories) - 1) :
              StrLess(CodePoints[resp.categories[i]], CodePoints[resp.categories[i + 1]])

\* C18 as claimed: the seed catalog has 10 products across 7 categories, and
\* categories() returns the distinct category values, each once, ascending.
C18_SevenCategories ==
    /\ Len(products_db) = 10
    /\ Cardinality(CategoriesOf(products_db)) = 7
    /\ C18_CategoriesSorted

\* C18 amended: the seed catalog has 10 products across 6 categories, and
\* categories() returns exactly the distinct category values of all products,
\* each once, in ascending lexicographic order: Beauty, Electronics, Fashion,
\* Furniture, Home, Lifestyle.
C18_SixCategories ==
    /\ Len(products_db) = 10
    /\ Cardinality(CategoriesOf(products_db)) = 6
    /\ C18_CategoriesSorted
    /\ route = "get_categories" =>
          resp.categories =
              <<"Beauty", "Electronics", "Fashion", "Furniture", "Home", "Lifestyle">>

\* categories() has just answered with six values while both users are
\* registered
C18_Witness ==
    /\ route = "get_categories"
    /\ Len(resp.categories) = 6
    /\ Len(users_db) = 2

\* product p passes the filters that are given
Matches(p, category, search) ==
    /\ category # "" => lower[p.category] = lower[category]
    /\ search # "" =>
          \/ IsSubstring(lower[search], lower[p.name])
          \/ IsSubstring(lower[search], lower[p.description])

\* the ids of a list of products
Ids(products) == [i \in 1..Len(products) |-> products[i].id]

\* a list step: the products it returns
C19_ListStep ==
    route' = "get_products" =>
        \A c \in Categories, q \in Searches :
            get_products(c, q) =>
                LET got == resp'.products
                IN /\ resp'.status = 200
                   /\ \A i \in 1..Len(got) :
                         /\ \E k \in 1..Len(products_db) : products_db[k] = got[i]
                         /\ Matches(got[i], c, q)
                   /\ \A k \in 1..Len(products_db) :
                         Matches(products_db[k], c, q) =>
                             \E i \in 1..Len(got) : got[i] = products_db[k]
                   /\ \A i, j \in 1..Len(got) : i < j => got[i].id < got[j].id
                   /\ (c = "" /\ q = "") => got = products_db
                   /\ (c = "HOME" /\ q = "") => Ids(got) = <<6, 10>>
                   /\ (c = "electronics" /\ q = "") => Ids(got) = <<1, 4, 7>>
                   /\ (c = "" /\ q = "SNEAKERS") => Ids(got) = <<2>>
                   /\ (c = "" /\ q = "premium") => Ids(got) = <<1, 3, 9>>
                   /\ (c = "electronics" /\ q = "premium") => Ids(got) = <<1>>
                   /\ (c = "fashion" /\ q = "set") => Ids(got) = <<5>>
                   /\ (c = "Toys" \/ q = "zzz") => got = <<>>

\* C19: list(category, search) returns, in seed order, exactly the products that
\* satisfy every given filter: category when the product's category equals the
\* argument ignoring case; search when the argument, ignoring case, is a
\* substring of the product's name or of its description; both when both are
\* given; with no filter all products.
C19_ListFilters == [][C19_ListStep]_vars

\* a search has just returned the three products that only their descriptions
\* match
C19_Witness ==
    /\ route = "get_products"
    /\ resp.status = 200
    /\ Ids(resp.products) = <<1, 3, 9>>

\* the adds of clients c and d, for the same user and product, were in flight
\* together: both arrived at the same line, the handler of c ran while the
\* request of d waited, no other add came between, both answered 200, and
\* neither response is sent yet
C20_Raced(c, d) ==
    /\ d \in in_flight[c].overtook
    /\ in_flight[c].pc = "respond" /\ in_flight[d].pc = "respond"
    /\ in_flight[c].status = 200 /\ in_flight[d].status = 200
    /\ in_flight[c].seen = in_flight[d].seen
    /\ in_flight[c].overtaken = 0
    /\ in_flight[d].overtaken = in_flight[c].quantity

\* the user's cart has one line for the product, holding the prior quantity
\* plus the quantities of both adds
C20_Summed(c, d) ==
    LET user_id == in_flight[c].current_user.user_id
        p == in_flight[c].product_id
    IN /\ Cardinality(LinesFor(CartItems(user_id), p)) = 1
       /\ LineQuantity(user_id, p) =
              in_flight[c].seen + in_flight[c].quantity + in_flight[d].quantity

\* a handler step that answers 200: the line it leaves is single and holds what
\* the request saw on arrival, plus what was added while it waited, plus its own
C20_HandlerStep ==
    \A c \in Clients :
        (in_flight[c].pc = "handler" /\ in_flight'[c].pc = "respond"
            /\ in_flight'[c].status = 200) =>
            LET r == in_flight[c]
                items == carts_db'[r.current_user.user_id].items
            IN /\ Cardinality(LinesFor(items, r.product_id)) = 1
               /\ QtyOf(items, r.product_id) = r.seen + r.overtaken + r.quantity

\* C20 as the specification states it: add(u, p, a) and add(u, p, b) in flight
\* together, both answered 200, lose an update: the line's quantity differs
\* from the prior quantity plus a + b, or two lines for p exist.
C20_LostUpdate ==
    \A c, d \in Clients : C20_Raced(c, d) => ~C20_Summed(c, d)

\* C20, as the code has it: no interleaving of two add requests for the same
\* user and product loses an update.  The body of add_to_cart runs without a
\* pause, so when add(u, p, a) and add(u, p, b) have both answered 200 the cart
\* has exactly one line for p and its quantity is the prior quantity plus a + b.
C20_NoLostUpdate ==
    /\ [](\A c, d \in Clients : C20_Raced(c, d) => C20_Summed(c, d))
    /\ [][C20_HandlerStep]_vars

\* two adds of -1 and of 1 arrived at a line holding a positive quantity, ran
\* one after the other while both were in flight, and the line holds that
\* quantity again
C20_Witness ==
    \E c, d \in Clients :
        /\ C20_Raced(c, d)
        /\ in_flight[c].seen > 0
        /\ in_flight[c].quantity + in_flight[d].quantity = 0
        /\ in_flight[c].quantity # 0
        /\ LineQuantity(in_flight[c].current_user.user_id, in_flight[c].product_id)
               = in_flight[c].seen

\* the tokens that verify for user u
TokensOf(u) == {create_token(d) : d \in {x \in UserPayloads : x.user_id = u}}

\* the cart record of user v is created, deleted, or differs from what it was
CartChanged(v) ==
    \/ (v \in DOMAIN carts_db) # (v \in DOMAIN carts_db')
    \/ v \in DOMAIN carts_db /\ carts_db'[v] # carts_db[v]

\* the step is no cart request made with token t
NoCartRequest(t) ==
    CASE route' = "get_cart" -> ~GetCartRequest(t)
      [] route' = "add_to_cart" ->
             \A p \in ReqProductIds, q \in Qtys : ~AddToCartRequest(t, p, q)
      [] route' = "update_cart_item" ->
             \A p \in ReqProductIds, q \in Qtys : ~UpdateCartItemRequest(t, p, q)
      [] route' = "remove_from_cart" ->
             \A p \in ReqProductIds : ~RemoveFromCartRequest(t, p)
      [] OTHER -> TRUE

\* a step that changes the cart of v or the catalog, the two things that
\* get_cart computes the answer to v from, is no cart request of another user
C21_Step ==
    \A v \in Users :
        (CartChanged(v) \/ products_db' # products_db) =>
            \A u \in Users \ {v} : \A t \in TokensOf(u) : NoCartRequest(t)

\* C21: carts are isolated per user.  Any cart request (add, update, remove,
\* get, answered 200 or not) made with a token for user u leaves the cart
\* record and the lines of every other user v unchanged, and with them what
\* get returns to v, which is computed from v's own lines and the catalog.
C21_CartsIsolated == [][C21_Step]_vars

\* a remove has just succeeded, the cart of user 2 is left without lines, and
\* user 1 still holds two of product 1
C21_Witness ==
    /\ route = "remove_from_cart"
    /\ resp.status = 200
    /\ DOMAIN carts_db = {1, 2}
    /\ carts_db[2].items = <<>>
    /\ carts_db[1].items = <<[product_id |-> 1, quantity |-> 2]>>

\* the lines of user u's cart all name products of the catalog
C22_LinesResolve(u) ==
    \A i \in 1..Len(CartItems(u)) :
        \E k \in 1..Len(products_db) : products_db[k].id = CartItems(u)[i].product_id

\* the view get builds for user u has one enriched line per stored line, in the
\* stored order, each carrying the catalog's record of the line's product
C22_LineForLine(u) ==
    \A enriched \in {cart_with_products(CartItems(u))} :
        /\ Len(enriched) = Len(CartItems(u))
        /\ \A i \in 1..Len(enriched) :
              /\ enriched[i].product.id = CartItems(u)[i].product_id
              /\ enriched[i].product \in {products_db[k] : k \in 1..Len(products_db)}
              /\ enriched[i].quantity = CartItems(u)[i].quantity

\* C22: in every reachable state every cart line's product_id refers to a
\* product present in the catalog, so the view of get never drops a line: it
\* has exactly one enriched line per stored cart line, in the same order.
C22_NoLineDropped ==
    \A u \in DOMAIN carts_db : C22_LinesResolve(u) /\ C22_LineForLine(u)

\* a get has just shown a cart of two lines, sneakers first and headphones
\* second, in the order they were added
C22_Witness ==
    /\ route = "get_cart"
    /\ resp.status = 200
    /\ Len(resp.items) = 2
    /\ resp.items[1].product.id = 2
    /\ resp.items[2].product.id = 1
    /\ \E u \in DOMAIN carts_db :
          /\ Len(carts_db[u].items) = 2
          /\ carts_db[u].items[1].product_id = 2
          /\ carts_db[u].items[2].product_id = 1

\* the payloads of the verified tokens of users that have a cart record
CartHolders == {cu \in UserPayloads : cu.user_id \in DOMAIN carts_db}

\* no step deletes a cart record, and only a successful add creates one
C23_CartsKept ==
    /\ \A u \in DOMAIN carts_db : u \in DOMAIN carts_db'
    /\ DOMAIN carts_db' # DOMAIN carts_db =>
           route' = "add_to_cart" /\ resp'.status = 200

\* no step deletes or changes a user record: the store is extended at its end
C23_UsersKept ==
    /\ Len(users_db') >= Len(users_db)
    /\ \A i \in 1..Len(users_db) : users_db'[i] = users_db[i]

\* an update by a user with a cart record, for a product the cart has no line
\* for, fails with "Item not found in cart"
C23_UpdateStep ==
    route' = "update_cart_item" =>
        \A cu \in CartHolders, p \in ReqProductIds :
            LinesFor(CartItems(cu.user_id), p) = {} =>
                \/ /\ resp' = HTTPException(404, "Item not found in cart")
                   /\ carts_db' = carts_db
                \/ \A q \in Qtys : ~update_cart_item(cu, p, q)

\* a remove by a user with a cart record succeeds, whatever the cart holds
C23_RemoveStep ==
    route' = "remove_from_cart" =>
        \A cu \in CartHolders :
            \/ resp' = Response(200, "Item removed from cart")
            \/ \A p \in ReqProductIds : ~remove_from_cart(cu, p)

\* C23: a cart record, once created by a user's first successful add, is never
\* deleted: it exists in every later state, also after all its lines are
\* removed by remove or by update with a quantity <= 0, so from then on update
\* for an absent line fails with "Item not found in cart" (never "Cart not
\* found") and remove always succeeds; and the user store only grows, its
\* records never updated or deleted.
C23_RecordsKept ==
    [][C23_CartsKept /\ C23_UsersKept /\ C23_UpdateStep /\ C23_RemoveStep]_vars

\* an update has just been refused with "Item not found in cart" for a user
\* whose cart record has lost all its lines
C23_Witness ==
    /\ route = "update_cart_item"
    /\ resp = HTTPException(404, "Item not found in cart")
    /\ \E u \in DOMAIN carts_db : carts_db[u].items = <<>>
    /\ \A u \in DOMAIN carts_db : carts_db[u].items = <<>>

====
